---- MODULE Spec2Model ----
(***************************************************************************)
(* Model of azfunctions/InputBlobTrigger/processor.py: the Processor that  *)
(* loads a NetCDF forecast into an xarray dataset and writes it to a       *)
(* PostgreSQL database in three steps (update_geometries,                  *)
(* update_predictions, update_latest_prediction).                          *)
(*                                                                         *)
(* Numbers.  Coordinates are floats in kilometres.  Every coordinate of    *)
(* the model is a multiple of half a metre, and the float 1000 * km is     *)
(* represented by the integer 2 * (1000 * km), its number of half-metres:  *)
(* 3 stands for 1.5 m.  Integer columns of the database hold metres.       *)
(* A timestamp is a number of half-days, its date the number of days.      *)
(***************************************************************************)
EXTENDS Integers, Sequences, FiniteSets, TLC

\* ------------------------------------------------------------------ bounds
MaxRuns == 2        \* invocations of the trigger, one Processor each
BatchSize == 2      \* the batch_size the Processor is constructed with
MaxCoord == 2       \* axis values of the grids of SpecGrid, in half-metres
MaxAxisLen == 2     \* axis lengths of the grids of SpecGrid

\* ---------------------------------------------------------------- sentinels
NaN == -1000        \* the float NaN (a masked or missing value)
NULL == -999        \* SQL NULL (no id, centroid or date of the model has this value)
None == [none |-> TRUE]

\* ------------------------------------------------------------------ inputs
Leads == {1, 2}

\* The data variable mean, mean[i][j] at (xc[i], yc[j]) for every lead time.
AllPositive == <<<<1, 1>>, <<1, 1>>>>
Mixed == <<<<2, 0>>, <<NaN, -1>>>>       \* positive at (xc[1], yc[1]) alone

\* The decoded input arrays: the axes xc and yc, one time, the data variable
\* mean indexed by (leadtime, xc, yc); stddev is 1 everywhere.
\*   - a grid of whole metres (0 m, 1 m), day 1 00:00;
\*   - a grid with half a metre (0 m, 0.5 m), day 2 12:00;
\*   - the first grid again, day 1 12:00, other means.
Datasets ==
    { [xc |-> <<0, 2>>, yc |-> <<0, 2>>, time |-> 2, mean |-> AllPositive],
      [xc |-> <<0, 1>>, yc |-> <<0, 2>>, time |-> 5, mean |-> AllPositive],
      [xc |-> <<0, 2>>, yc |-> <<0, 2>>, time |-> 3, mean |-> Mixed] }

\* A blob is a dataset or bytes that xarray cannot decode.
Malformed == [malformed |-> TRUE]
Blobs == Datasets \cup {Malformed}

\* --------------------------------------------------------- pure conversions
\* int(f) for the float with f2 half-units: truncation toward zero.
int(f2) == IF f2 >= 0 THEN f2 \div 2 ELSE -((-f2) \div 2)

IsIntegral(f2) == f2 % 2 = 0

\* record.time.date(): the date of a timestamp.
date(ts) == ts \div 2

Range(s) == { s[i] : i \in DOMAIN s }

\* Mutant: one batch more than the records fill.
n_batches_and_one(n, size) == (n \div size) + 1

\* batches(records, n): the records in order, in chunks of n, the last one
\* possibly shorter.
n_batches(n, size) == (n + size - 1) \div size

batches(records, size) ==
    [ k \in 1..n_batches(Len(records), size) |->
        SubSeq(records, (k - 1) * size + 1,
               IF k * size < Len(records) THEN k * size ELSE Len(records)) ]

\* ----------------------------------------------------------- update_geometries
abs(x) == IF x < 0 THEN -x ELSE x

\* mean_step_size(axis): the mean absolute difference of consecutive values,
\* here the rational num / den in half-metres (num / (2000 * den) in km).
RECURSIVE sum_steps(_, _)
sum_steps(axis, n) ==
    IF n <= 1 THEN 0 ELSE sum_steps(axis, n - 1) + abs(axis[n] - axis[n - 1])

mean_step_size(axis) == [num |-> sum_steps(axis, Len(axis)), den |-> Len(axis) - 1]

\* x_delta_m = 1000 * int(0.5 * mean_step_size(centroids_km)): half the mean
\* step in km is truncated to whole km, then converted to metres.
delta_m(axis) ==
    1000 * (mean_step_size(axis).num \div (4000 * mean_step_size(axis).den))

\* Polygon([...]): the ring of the five corners of lines 113-121.
Polygon(x_min_m, x_max_m, y_min_m, y_max_m) ==
    << <<x_min_m, y_max_m>>, <<x_max_m, y_max_m>>, <<x_max_m, y_min_m>>,
       <<x_min_m, y_min_m>>, <<x_min_m, y_max_m>> >>

\* Mutant: the x coordinate taken for both centroid values.
geometry_records_xx(ds) ==
    LET nx == Len(ds.xc)
        ny == Len(ds.yc)
    IN  [ k \in 1..(nx * ny) |->
            LET centroid_x_m == int(ds.xc[((k - 1) \div ny) + 1])
                centroid_y_m == int(ds.xc[((k - 1) \div ny) + 1])
            IN  [ centroid_x |-> centroid_x_m,
                  centroid_y |-> centroid_y_m,
                  geom |-> Polygon(centroid_x_m - delta_m(ds.xc),
                                   centroid_x_m + delta_m(ds.xc),
                                   centroid_y_m - delta_m(ds.yc),
                                   centroid_y_m + delta_m(ds.yc)) ] ]

\* The records of lines 106-122: one per (x, y) combination, x outermost,
\* with the centroid truncated to integer metres and the polygon around it
\* (the same text goes to both geometry columns).
geometry_records(ds) ==
    LET nx == Len(ds.xc)
        ny == Len(ds.yc)
    IN  [ k \in 1..(nx * ny) |->
            LET centroid_x_m == int(ds.xc[((k - 1) \div ny) + 1])
                centroid_y_m == int(ds.yc[((k - 1) % ny) + 1])
            IN  [ centroid_x |-> centroid_x_m,
                  centroid_y |-> centroid_y_m,
                  geom |-> Polygon(centroid_x_m - delta_m(ds.xc),
                                   centroid_x_m + delta_m(ds.xc),
                                   centroid_y_m - delta_m(ds.yc),
                                   centroid_y_m + delta_m(ds.yc)) ] ]

\* ------------------------------------------------------------------- state
VARIABLES
    \* the database, as committed
    tables,         \* the relations that exist
    cell,           \* rows of table cell
    prediction,     \* rows of table prediction
    latest,         \* rows of the materialised view prediction_latest
    cellSeq,        \* the sequence behind cell.cell_id (SERIAL)
    predSeq,        \* the sequence behind prediction.prediction_id (SERIAL)
    \* the transaction of the Processor's connection
    txn,
    \* the Processor
    cnxn_,          \* "None", "open" or "closed"
    cursor_,        \* whether self.cursor_ is set
    xr,             \* None or the loaded dataset
    records,        \* the records being inserted by the running operation
    idx,            \* batches of the running operation committed so far
    opened,         \* connections and cursors the Processor has opened
    \* the invocation
    pc,             \* where the invocation is
    op,             \* the operation that last raised
    blob,           \* the input of the invocation
    runs,           \* invocations started
    \* history, read by the properties only
    snap,           \* the committed tables when the invocation started
    base,           \* the same, before the first attempt, when the invocation
                    \* runs again the input of crashed ones
    prev,           \* the previous invocation: its input and how it ended
    done,           \* the operations of this invocation that returned normally
    wrote,          \* whether this invocation sent a statement or a commit
    failed          \* the batch whose insert raised in this invocation, if any

dbvars == <<tables, cell, prediction, latest, cellSeq, predSeq>>
procvars == <<cnxn_, cursor_, xr, records, idx, opened>>
invvars == <<pc, op, blob, runs>>
histvars == <<snap, base, prev, done, wrote, failed>>
vars == <<tables, cell, prediction, latest, cellSeq, predSeq, txn,
          cnxn_, cursor_, xr, records, idx, opened, pc, op, blob, runs,
          snap, base, prev, done, wrote, failed>>

Operations == {"update_geometries", "update_predictions", "update_latest_prediction"}

\* No connection and no cursor opened yet.
NoneOpened == [cnxn |-> 0, cursor |-> 0]

NoTxn == [status |-> "none", tables |-> {}, cell |-> {}, prediction |-> {},
          view |-> None]

\* What the Processor's session sees: the committed rows and its own
\* uncommitted ones.
visTables == tables \cup txn.tables
visCell == cell \cup txn.cell
visPrediction == prediction \cup txn.prediction

\* cnxn.commit(): makes the transaction's writes durable; the COMMIT of a
\* transaction that a failed statement aborted rolls it back instead.
Committed(t) ==
    IF t.status = "open"
    THEN [tables |-> tables \cup t.tables,
          cell |-> cell \cup t.cell,
          prediction |-> prediction \cup t.prediction,
          latest |-> IF t.view = None THEN latest ELSE t.view.rows]
    ELSE [tables |-> tables, cell |-> cell, prediction |-> prediction,
          latest |-> latest]

commit ==
    /\ tables' = Committed(txn).tables
    /\ cell' = Committed(txn).cell
    /\ prediction' = Committed(txn).prediction
    /\ latest' = Committed(txn).latest
    /\ txn' = NoTxn
    /\ UNCHANGED <<cellSeq, predSeq>>

\* -------------------------------------------------------------- SQL statements
\* Mutant: no uniqueness constraint to conflict with.
cell_conflict_never(r, rows) == FALSE

\* UNIQUE (centroid_x, centroid_y): whether the insert of r conflicts with a
\* row the session sees.
cell_conflict(r, rows) ==
    \E c \in rows : c.centroid_x = r.centroid_x /\ c.centroid_y = r.centroid_y

\* INSERT INTO cell ... VALUES (DEFAULT, ...) ON CONFLICT DO NOTHING, for the
\* first n records of a batch in order. DEFAULT draws the next value of the
\* sequence, also when the row is then skipped. s is [rows, seq]: the
\* transaction's uncommitted cell rows and the sequence; committed are the
\* rows of the table.
RECURSIVE insert_cells(_, _, _, _)
insert_cells(committed, batch_, n, s) ==
    IF n = 0 THEN s
    ELSE LET q == insert_cells(committed, batch_, n - 1, s)
             r == batch_[n]
             id == q.seq + 1
         IN  IF cell_conflict(r, committed \cup q.rows)
             THEN [rows |-> q.rows, seq |-> id]
             ELSE [rows |-> q.rows \cup
                        {[cell_id |-> id, centroid_x |-> r.centroid_x,
                          centroid_y |-> r.centroid_y, geom |-> r.geom]},
                   seq |-> id]

\* Mutant: no uniqueness constraint on prediction.
prediction_conflict_never(r, rows) == FALSE

\* UNIQUE (date, leadtime, cell_id): NULLs are distinct from each other, so
\* a row without cell_id conflicts with nothing.
prediction_conflict(r, rows) ==
    /\ r.cell_id # NULL
    /\ \E p \in rows : /\ p.date = date(r.time)
                       /\ p.leadtime = r.leadtime
                       /\ p.cell_id = r.cell_id

\* INSERT INTO prediction ... ON CONFLICT DO NOTHING, for the first n records
\* of a batch. xc and yc are not columns: they keep, for each row, the
\* coordinates of the record it was written from.
RECURSIVE insert_predictions(_, _, _, _)
insert_predictions(committed, batch_, n, s) ==
    IF n = 0 THEN s
    ELSE LET q == insert_predictions(committed, batch_, n - 1, s)
             r == batch_[n]
             id == q.seq + 1
         IN  IF prediction_conflict(r, committed \cup q.rows)
             THEN [rows |-> q.rows, seq |-> id]
             ELSE [rows |-> q.rows \cup
                        {[prediction_id |-> id, date |-> date(r.time),
                          leadtime |-> r.leadtime, cell_id |-> r.cell_id,
                          mean |-> r.mean, stddev |-> r.stddev,
                          xc |-> r.xc, yc |-> r.yc]},
                   seq |-> id]

\* ----------------------------------------------------------- update_predictions
\* to_dataframe(): one row per (leadtime, xc, yc) combination, in order.
to_dataframe(ds) ==
    LET nx == Len(ds.xc)
        ny == Len(ds.yc)
        nl == Cardinality(Leads)
    IN  [ k \in 1..(nl * nx * ny) |->
            LET l == ((k - 1) \div (nx * ny)) + 1
                i == (((k - 1) % (nx * ny)) \div ny) + 1
                j == ((k - 1) % ny) + 1
            IN  [ time |-> ds.time, leadtime |-> l,
                  xc |-> ds.xc[i], yc |-> ds.yc[j],
                  mean |-> ds.mean[i][j], stddev |-> 1 ] ]

\* xr.where(xr["mean"] > 0) masks mean and stddev where the mean is not
\* positive (NaN > 0 is false); dropna() then drops the masked rows and
\* those with a missing value.
\* Mutant: a mean of zero passes the filter.
keep_zero(r) == r.mean # NaN /\ r.mean >= 0 /\ r.stddev # NaN

keep(r) == r.mean # NaN /\ r.mean > 0 /\ r.stddev # NaN

RECURSIVE SelectSeq2(_, _)
SelectSeq2(s, n) ==
    IF n = 0 THEN <<>>
    ELSE IF keep(s[n]) THEN Append(SelectSeq2(s, n - 1), s[n])
         ELSE SelectSeq2(s, n - 1)

df_predictions(ds) == SelectSeq2(to_dataframe(ds), Len(to_dataframe(ds)))

\* pd.to_numeric(1000 * column, downcast="integer"): the column becomes an
\* integer column when every value of it is a whole number and stays a float
\* column, its values unchanged, otherwise. Nothing is truncated.
to_numeric(column) ==
    IF \A k \in DOMAIN column : IsIntegral(column[k])
    THEN [dtype |-> "int", values |-> [k \in DOMAIN column |-> column[k] \div 2]]
    ELSE [dtype |-> "float", values |-> column]

\* Whether value k of a converted column equals the integer (metres) c, as
\* the merge compares them.
key_equal(col, k, c) ==
    IF col.dtype = "int" THEN col.values[k] = c ELSE col.values[k] = 2 * c

\* pd.merge(df_predictions, df_cells, how="left", left_on=[xc_m, yc_m],
\* right_on=[centroid_x, centroid_y]): every prediction keeps its row, with
\* the cell_id of the matching cell, or none.
df_merged(ds, cells) ==
    LET df == df_predictions(ds)
        xc_m == to_numeric([k \in DOMAIN df |-> df[k].xc])
        yc_m == to_numeric([k \in DOMAIN df |-> df[k].yc])
        match(k) == { c \in cells : /\ key_equal(xc_m, k, c.centroid_x)
                                    /\ key_equal(yc_m, k, c.centroid_y) }
    IN  [ k \in DOMAIN df |->
            [ time |-> df[k].time, leadtime |-> df[k].leadtime,
              xc |-> df[k].xc, yc |-> df[k].yc,
              mean |-> df[k].mean, stddev |-> df[k].stddev,
              cell_id |-> IF match(k) = {} THEN NULL
                          ELSE (CHOOSE c \in match(k) : TRUE).cell_id ] ]

\* ------------------------------------------------------ update_latest_prediction
\* Mutant: the earliest date instead of the latest.
min_date(preds) ==
    IF preds = {} THEN NULL
    ELSE CHOOSE d \in { p.date : p \in preds } :
            \A p \in preds : p.date >= d

max_date(preds) ==
    IF preds = {} THEN NULL
    ELSE CHOOSE d \in { p.date : p \in preds } :
            \A p \in preds : p.date <= d

\* The SELECT of the view: prediction FULL OUTER JOIN cell on cell_id, the
\* rows of the latest date, grouped by every displayed column. A cell without
\* prediction joins with a NULL date and is filtered out; a prediction
\* without cell keeps NULL cell columns.
latest_rows(preds, cells) ==
    { [ date |-> p.date, leadtime |-> p.leadtime, mean |-> p.mean,
        stddev |-> p.stddev,
        cell_id |-> IF \E c \in cells : c.cell_id = p.cell_id
                    THEN p.cell_id ELSE NULL,
        centroid_x |-> IF \E c \in cells : c.cell_id = p.cell_id
                       THEN (CHOOSE c \in cells : c.cell_id = p.cell_id).centroid_x
                       ELSE NULL,
        centroid_y |-> IF \E c \in cells : c.cell_id = p.cell_id
                       THEN (CHOOSE c \in cells : c.cell_id = p.cell_id).centroid_y
                       ELSE NULL ] :
      p \in { q \in preds : q.date = max_date(preds) } }

NoRows == [cell |-> {}, prediction |-> {}, latest |-> {}]
Rows == [cell |-> cell, prediction |-> prediction, latest |-> latest]

\* -------------------------------------------------------------------- Init
\* A database that holds nothing, or one provisioned with the two tables and
\* the view, all empty; no Processor yet.
Init ==
    /\ tables \in {{}, {"cell", "prediction", "prediction_latest"}}
    /\ cell = {} /\ prediction = {} /\ latest = {}
    /\ cellSeq = 0 /\ predSeq = 0
    /\ txn = NoTxn
    /\ cnxn_ = "None" /\ cursor_ = FALSE /\ xr = None
    /\ opened = NoneOpened
    /\ records = <<>> /\ idx = 0
    /\ pc = "idle" /\ op = "none" /\ blob = None /\ runs = 0
    /\ snap = NoRows /\ base = NoRows
    /\ prev = None
    /\ done = {} /\ wrote = FALSE /\ failed = None

\* ---------------------------------------------------------------- Processor
\* Processor(batch_size) and the start of an invocation on input b.
Invoke(b) ==
    /\ pc = "idle" /\ runs < MaxRuns
    /\ pc' = "load" /\ op' = "none" /\ blob' = b /\ runs' = runs + 1
    /\ cnxn_' = "None" /\ cursor_' = FALSE /\ xr' = None
    /\ opened' = NoneOpened
    /\ records' = <<>> /\ idx' = 0
    /\ snap' = Rows
    /\ base' = IF prev # None /\ prev.how \in {"crash", "crash in batches"}
                  /\ prev.blob = b
               THEN base ELSE Rows
    /\ done' = {} /\ wrote' = FALSE /\ failed' = None
    /\ UNCHANGED <<dbvars, txn, prev>>

\* load(inputBlob): a ValueError of the decoder is logged and not raised.
load ==
    /\ pc = "load"
    /\ xr' = IF blob = Malformed THEN None ELSE blob
    /\ pc' = "geom_create"
    /\ done' = done \cup {"load"}
    /\ UNCHANGED <<dbvars, txn, cnxn_, cursor_, opened, records, idx, op, blob, runs,
                   snap, base, prev, wrote, failed>>

\* The cnxn property: psycopg2.connect when there is no connection, the
\* existing connection otherwise.
cnxn(c) == IF c = "None" THEN [cnxn_ |-> "open", connected |-> 1]
           ELSE [cnxn_ |-> c, connected |-> 0]

\* Mutant: a cursor property that makes a new cursor at every use.
cursor_every_time ==
    /\ cursor_' = TRUE
    /\ cnxn_' = cnxn(cnxn_).cnxn_
    /\ opened' = [cnxn |-> opened.cnxn + cnxn(cnxn_).connected,
                  cursor |-> opened.cursor + 1]

\* The cursor property: self.cnxn.cursor() when there is no cursor, the
\* existing cursor otherwise.
cursor ==
    /\ cursor_' = TRUE
    /\ cnxn_' = IF cursor_ THEN cnxn_ ELSE cnxn(cnxn_).cnxn_
    /\ opened' = IF cursor_ THEN opened
                 ELSE [cnxn |-> opened.cnxn + cnxn(cnxn_).connected,
                       cursor |-> opened.cursor + 1]

\* An exception leaves the operation o.
Raise(o) == pc' = "raised" /\ op' = o

\* The cursor property on first use, when psycopg2.connect raises
\* OperationalError: logged and raised again.
connect_fails(here, o) ==
    /\ pc = here /\ ~cursor_
    /\ Raise(o)
    /\ UNCHANGED <<dbvars, txn, procvars, blob, runs, histvars>>

\* Mutant: the DROP of the view takes effect at once, outside the
\* transaction, before the statement after it is rejected.
statement_fails_after_drop(here, o) ==
    /\ pc = here
    /\ cursor
    /\ txn' = [NoTxn EXCEPT !.status = "aborted"]
    /\ wrote' = TRUE
    /\ Raise(o)
    /\ tables' = IF here = "latest_exec" THEN tables \ {"prediction_latest"} ELSE tables
    /\ latest' = IF here = "latest_exec" THEN {} ELSE latest
    /\ UNCHANGED <<cell, prediction, cellSeq, predSeq, xr, records, idx, blob, runs,
                   snap, base, prev, done, failed>>

\* A statement the server rejects (every statement is rejected once the
\* transaction is aborted): the transaction is aborted and the error raised.
statement_fails(here, o) ==
    /\ pc = here
    /\ cursor
    /\ txn' = [NoTxn EXCEPT !.status = "aborted"]
    /\ wrote' = TRUE
    /\ Raise(o)
    /\ UNCHANGED <<dbvars, xr, records, idx, blob, runs, snap, base, prev, done, failed>>

\* cursor.execute(CREATE TABLE IF NOT EXISTS t ...), the connection opened
\* on first use. The creation of prediction, which REFERENCES cell, is
\* rejected when there is no table cell.
create_table(here, t, next) ==
    /\ pc = here /\ txn.status # "aborted"
    /\ (t = "prediction" /\ t \notin visTables) => "cell" \in visTables
    /\ cursor
    /\ txn' = [txn EXCEPT !.status = "open",
                          !.tables = IF t \in visTables THEN @ ELSE @ \cup {t}]
    /\ wrote' = TRUE
    /\ pc' = next
    /\ UNCHANGED <<dbvars, xr, records, idx, op, blob, runs, snap, base, prev, done, failed>>

\* cnxn.commit() after the CREATE TABLE.
create_commit(here, next) ==
    /\ pc = here
    /\ commit
    /\ wrote' = TRUE
    /\ pc' = next
    /\ UNCHANGED <<procvars, op, blob, runs, snap, base, prev, done, failed>>

\* self.xr is None after a failed load: the attribute access raises.
no_dataset(here, o) ==
    /\ pc = here /\ xr = None
    /\ Raise(o)
    /\ UNCHANGED <<dbvars, txn, procvars, blob, runs, histvars>>

\* The operation o returns: the invocation goes on with the next one.
NextOp(o) ==
    CASE o = "load" -> "geom_create"
      [] o = "update_geometries" -> "pred_create"
      [] o = "update_predictions" -> "latest_exec"
      [] o = "update_latest_prediction" -> "exit"

\* The records are built (lines 101-123, 178-202); with none there is no
\* batch and the operation returns.
build_records(here, o, recs, next) ==
    /\ pc = here /\ xr # None
    /\ records' = recs
    /\ idx' = 0
    /\ IF Len(recs) = 0
       THEN pc' = NextOp(o) /\ done' = done \cup {o}
       ELSE pc' = next /\ done' = done
    /\ UNCHANGED <<dbvars, txn, cnxn_, cursor_, opened, xr, op, blob, runs,
                   snap, base, prev, wrote, failed>>

\* cnxn.commit() after a batch; after the last batch the operation returns.
batch_commit(here, o, again) ==
    /\ pc = here
    /\ commit
    /\ idx' = idx + 1
    /\ IF idx + 1 = n_batches(Len(records), BatchSize)
       THEN pc' = NextOp(o) /\ done' = done \cup {o}
       ELSE pc' = again /\ done' = done
    /\ UNCHANGED <<cnxn_, cursor_, opened, xr, records, op, blob, runs,
                   snap, base, prev, wrote, failed>>

\* The batch being inserted and what is remembered when its insert raises.
batch == batches(records, BatchSize)[idx + 1]

Failure(o) == [op |-> o, k |-> idx + 1, batch |-> batch,
               cell |-> cell, prediction |-> prediction]

\* ------------------------------------------------------- update_geometries
\* Lines 135-143 for one batch, every insert accepted.
insert_geometries ==
    /\ pc = "geom_batch"
    /\ LET s == insert_cells(cell, batch, Len(batch), [rows |-> txn.cell, seq |-> cellSeq])
       IN  /\ txn' = [txn EXCEPT !.status = "open", !.cell = s.rows]
           /\ cellSeq' = s.seq
    /\ pc' = "geom_commit"
    /\ UNCHANGED <<tables, cell, prediction, latest, predSeq, procvars,
                   op, blob, runs, histvars>>

\* Lines 135-143 for one batch whose insert f raises, either rejected by the
\* server (the transaction is aborted) or before it reaches the server (the
\* transaction keeps the rows of the inserts before it). Nothing is rolled
\* back and nothing is caught: the exception leaves update_geometries.
insert_geometries_fails ==
    /\ pc = "geom_batch"
    /\ \E f \in 1..Len(batch), kind \in {"server", "client"} :
         LET s == insert_cells(cell, batch, f - 1, [rows |-> txn.cell, seq |-> cellSeq])
         IN  /\ txn' = IF kind = "server"
                       THEN [NoTxn EXCEPT !.status = "aborted"]
                       ELSE [txn EXCEPT !.status = IF f > 1 THEN "open" ELSE @,
                                        !.cell = s.rows]
             /\ cellSeq' = s.seq
    /\ failed' = Failure("update_geometries")
    /\ Raise("update_geometries")
    /\ UNCHANGED <<tables, cell, prediction, latest, predSeq, procvars,
                   blob, runs, snap, base, prev, done, wrote>>

update_geometries ==
    \/ connect_fails("geom_create", "update_geometries")
    \/ statement_fails("geom_create", "update_geometries")
    \/ create_table("geom_create", "cell", "geom_create_commit")
    \/ create_commit("geom_create_commit", "geom_records")
    \/ no_dataset("geom_records", "update_geometries")
    \/ build_records("geom_records", "update_geometries",
                     IF xr = None THEN <<>> ELSE geometry_records(xr), "geom_batch")
    \/ insert_geometries
    \/ insert_geometries_fails
    \/ batch_commit("geom_commit", "update_geometries", "geom_batch")

\* ------------------------------------------------------ update_predictions
insert_forecasts ==
    /\ pc = "pred_batch"
    /\ LET s == insert_predictions(prediction, batch, Len(batch),
                                   [rows |-> txn.prediction, seq |-> predSeq])
       IN  /\ txn' = [txn EXCEPT !.status = "open", !.prediction = s.rows]
           /\ predSeq' = s.seq
    /\ pc' = "pred_commit"
    /\ UNCHANGED <<tables, cell, prediction, latest, cellSeq, procvars,
                   op, blob, runs, histvars>>

insert_forecasts_fails ==
    /\ pc = "pred_batch"
    /\ \E f \in 1..Len(batch), kind \in {"server", "client"} :
         LET s == insert_predictions(prediction, batch, f - 1,
                                     [rows |-> txn.prediction, seq |-> predSeq])
         IN  /\ txn' = IF kind = "server"
                       THEN [NoTxn EXCEPT !.status = "aborted"]
                       ELSE [txn EXCEPT !.status = IF f > 1 THEN "open" ELSE @,
                                        !.prediction = s.rows]
             /\ predSeq' = s.seq
    /\ failed' = Failure("update_predictions")
    /\ Raise("update_predictions")
    /\ UNCHANGED <<tables, cell, prediction, latest, cellSeq, procvars,
                   blob, runs, snap, base, prev, done, wrote>>

update_predictions ==
    \/ connect_fails("pred_create", "update_predictions")
    \/ statement_fails("pred_create", "update_predictions")
    \/ create_table("pred_create", "prediction", "pred_create_commit")
    \/ create_commit("pred_create_commit", "pred_load")
    \/ no_dataset("pred_load", "update_predictions")
    \/ build_records("pred_load", "update_predictions",
                     IF xr = None THEN <<>> ELSE df_merged(xr, visCell), "pred_batch")
    \/ insert_forecasts
    \/ insert_forecasts_fails
    \/ batch_commit("pred_commit", "update_predictions", "pred_batch")

\* ------------------------------------------------ update_latest_prediction
\* Mutant: DROP MATERIALIZED VIEW IF EXISTS, the view created when there was
\* none.
replace_view_if_exists ==
    /\ pc = "latest_exec" /\ txn.status # "aborted"
    /\ {"cell", "prediction"} \subseteq visTables
    /\ cursor
    /\ txn' = [txn EXCEPT !.status = "open",
                          !.tables = @ \cup ({"prediction_latest"} \ tables),
                          !.view = [rows |-> latest_rows(visPrediction, visCell)]]
    /\ wrote' = TRUE
    /\ pc' = "latest_commit"
    /\ UNCHANGED <<dbvars, xr, records, idx, op, blob, runs, snap, base, prev, done, failed>>

\* DROP MATERIALIZED VIEW ...; CREATE MATERIALIZED VIEW ... AS SELECT ..., one
\* execute: the DROP is rejected when the view does not exist.
replace_view ==
    /\ pc = "latest_exec" /\ txn.status # "aborted"
    /\ {"cell", "prediction", "prediction_latest"} \subseteq visTables
    /\ cursor
    /\ txn' = [txn EXCEPT !.status = "open",
                          !.view = [rows |-> latest_rows(visPrediction, visCell)]]
    /\ wrote' = TRUE
    /\ pc' = "latest_commit"
    /\ UNCHANGED <<dbvars, xr, records, idx, op, blob, runs, snap, base, prev, done, failed>>

latest_commit ==
    /\ pc = "latest_commit"
    /\ commit
    /\ pc' = NextOp("update_latest_prediction")
    /\ done' = done \cup {"update_latest_prediction"}
    /\ UNCHANGED <<procvars, op, blob, runs, snap, base, prev, wrote, failed>>

update_latest_prediction ==
    \/ connect_fails("latest_exec", "update_latest_prediction")
    \/ statement_fails("latest_exec", "update_latest_prediction")
    \/ replace_view
    \/ latest_commit

\* ------------------------------------------------------------ the invocation
\* The caller, when an operation raised: the error ends the invocation, or
\* the caller goes on with the next operation on the same Processor.
Abort ==
    /\ pc = "raised"
    /\ pc' = "exit"
    /\ UNCHANGED <<dbvars, txn, procvars, op, blob, runs, histvars>>

Continue ==
    /\ pc = "raised"
    /\ pc' = NextOp(op)
    /\ UNCHANGED <<dbvars, txn, procvars, op, blob, runs, histvars>>

\* How an invocation ended, for the next one; of a crash, whether it came
\* between the batch commits of an operation.
Ended(how) ==
    [blob |-> blob,
     how |-> IF how = "crash"
             THEN IF pc \in {"geom_batch", "geom_commit", "pred_batch", "pred_commit"}
                  THEN "crash in batches" ELSE "crash"
             ELSE IF Operations \subseteq done THEN "completed"
             ELSE IF "update_geometries" \in done THEN "geometries"
             ELSE "failed"]

Crashed(p) == p # None /\ p.how \in {"crash", "crash in batches"}

\* The invocation is over and its Processor gone.
Gone(how) ==
    /\ pc' = "idle"
    /\ prev' = Ended(how)
    /\ cursor_' = FALSE /\ xr' = None /\ records' = <<>> /\ idx' = 0
    /\ opened' = NoneOpened
    /\ op' = "none" /\ done' = {} /\ wrote' = FALSE /\ failed' = None
    /\ snap' = NoRows
    /\ base' = IF how = "crash" THEN base ELSE NoRows
    /\ UNCHANGED <<dbvars, blob, runs>>

\* cnxn_.close(): the connection's uncommitted transaction is discarded.
close ==
    /\ cnxn_' = "closed"
    /\ txn' = NoTxn

\* Mutant: a destructor that does not close the connection.
del_without_close ==
    /\ pc = "exit"
    /\ UNCHANGED <<cnxn_, txn>>
    /\ Gone("exit")

\* __del__, when the invocation is over and the Processor released: the
\* connection, if there is one, is closed.
del ==
    /\ pc = "exit"
    /\ IF cnxn_ # "None" THEN close ELSE UNCHANGED <<cnxn_, txn>>
    /\ Gone("exit")

\* The process dies: the server drops the connection and its transaction.
Crash ==
    /\ pc \notin {"idle", "exit"}
    /\ cnxn_' = IF cnxn_ = "open" THEN "closed" ELSE cnxn_
    /\ txn' = NoTxn
    /\ Gone("crash")

\* The trigger: an error ends the invocation.
Next ==
    \/ \E b \in Blobs : Invoke(b)
    \/ load
    \/ update_geometries
    \/ update_predictions
    \/ update_latest_prediction
    \/ Abort
    \/ del
    \/ Crash

Spec == Init /\ [][Next]_vars

\* One invocation by a caller that catches the error of an operation and
\* goes on with the next one.
NextCaught ==
    \/ \E b \in Blobs : runs = 0 /\ Invoke(b)
    \/ load
    \/ update_geometries
    \/ update_predictions
    \/ update_latest_prediction
    \/ Abort
    \/ Continue
    \/ del
    \/ Crash

SpecCaught == Init /\ [][NextCaught]_vars

\* The Processor is released, and __del__ runs, when the invocation is over
\* (its last reference goes with the caller's frame).
FairSpec == SpecCaught /\ WF_vars(del)


\* ------------------------------------------------- the derivation of the grid
\* The axes of a grid: at least two values each, no value twice.
Coords == (-MaxCoord)..MaxCoord
Axes ==
    { a \in UNION { [1..n -> Coords] : n \in 2..MaxAxisLen } :
        \A i, j \in DOMAIN a : i # j => a[i] # a[j] }

\* Axes of a coarse grid: steps of 25 km and of 2 km.
CoarseAxes == { <<0, 50000>>, <<0, 4000>> }

\* Lines 101-123 of update_geometries applied to any grid.
InitGrid ==
    /\ tables = {} /\ cell = {} /\ prediction = {} /\ latest = {}
    /\ cellSeq = 0 /\ predSeq = 0
    /\ txn = NoTxn
    /\ cnxn_ = "None" /\ cursor_ = FALSE /\ opened = NoneOpened
    /\ xr \in { [xc |-> xs, yc |-> ys] : xs \in Axes \cup CoarseAxes, ys \in Axes }
    /\ records = <<>> /\ idx = 0
    /\ pc = "grid" /\ op = "none" /\ blob = None /\ runs = 0
    /\ snap = NoRows /\ base = NoRows
    /\ prev = None
    /\ done = {} /\ wrote = FALSE /\ failed = None

derive_grid ==
    /\ pc = "grid"
    /\ records' = geometry_records(xr)
    /\ pc' = "derived"
    /\ UNCHANGED <<dbvars, txn, cnxn_, cursor_, opened, xr, idx, op, blob, runs, histvars>>

SpecGrid == InitGrid /\ [][derive_grid]_vars

\* ------------------------------------------------ two concurrent invocations
\* Two invocations on the same input, each with its own Processor and its own
\* connection, against one database (READ COMMITTED).  In SpecPair the
\* variables of the Processor and of the invocation hold one value for each
\* invocation; idx[i] is [k, j]: batches committed, and inserts executed of
\* the batch after them.  Statements are interleaved one by one.
Procs == {1, 2}
Other(i) == 3 - i

InitPair ==
    /\ tables \in {{}, {"cell", "prediction", "prediction_latest"}}
    /\ cell = {} /\ prediction = {} /\ latest = {}
    /\ cellSeq = 0 /\ predSeq = 0
    /\ txn = [i \in Procs |-> NoTxn]
    /\ cnxn_ = [i \in Procs |-> "None"] /\ cursor_ = [i \in Procs |-> FALSE]
    /\ opened = NoneOpened
    /\ xr = [i \in Procs |-> None]
    /\ records = [i \in Procs |-> <<>>]
    /\ idx = [i \in Procs |-> [k |-> 0, j |-> 0]]
    /\ pc = [i \in Procs |-> "load"]
    /\ op = "none" /\ blob \in Datasets /\ runs = 2
    /\ snap = NoRows /\ base = NoRows
    /\ prev = None
    /\ done = {} /\ wrote = FALSE /\ failed = None

pairfixed == <<opened, op, blob, runs, histvars>>

\* load(inputBlob) of invocation i.
pair_load(i) ==
    /\ pc[i] = "load"
    /\ xr' = [xr EXCEPT ![i] = blob]
    /\ pc' = [pc EXCEPT ![i] = "geom_create"]
    /\ UNCHANGED <<dbvars, txn, cnxn_, cursor_, records, idx, pairfixed>>

\* CREATE TABLE IF NOT EXISTS t by invocation i: a notice when i sees the
\* table; when the other invocation has created it and not committed yet,
\* the statement waits for that transaction; the table is created otherwise.
pair_create_table(i, here, t, wait, next) ==
    /\ pc[i] = here
    /\ cnxn_' = [cnxn_ EXCEPT ![i] = "open"]
    /\ cursor_' = [cursor_ EXCEPT ![i] = TRUE]
    /\ IF t \in tables \cup txn[i].tables
       THEN /\ txn' = [txn EXCEPT ![i].status = "open"]
            /\ pc' = [pc EXCEPT ![i] = next]
       ELSE IF t \in txn[Other(i)].tables
       THEN /\ txn' = [txn EXCEPT ![i].status = "open"]
            /\ pc' = [pc EXCEPT ![i] = wait]
       ELSE /\ txn' = [txn EXCEPT ![i].status = "open", ![i].tables = @ \cup {t}]
            /\ pc' = [pc EXCEPT ![i] = next]
    /\ UNCHANGED <<dbvars, xr, records, idx, pairfixed>>

\* The statement that waited: the other invocation has committed the table,
\* this one's creation violates the catalog's unique index and is rejected.
\* The error ends the invocation; its connection closes.
pair_create_rejected(i, wait) ==
    /\ pc[i] = wait
    /\ txn[Other(i)].tables = {}
    /\ txn' = [txn EXCEPT ![i] = NoTxn]
    /\ cnxn_' = [cnxn_ EXCEPT ![i] = "closed"]
    /\ pc' = [pc EXCEPT ![i] = "raised"]
    /\ UNCHANGED <<dbvars, cursor_, xr, records, idx, pairfixed>>

\* cnxn.commit() of invocation i.
pair_commit(i) ==
    /\ tables' = Committed(txn[i]).tables
    /\ cell' = Committed(txn[i]).cell
    /\ prediction' = Committed(txn[i]).prediction
    /\ latest' = Committed(txn[i]).latest
    /\ txn' = [txn EXCEPT ![i] = NoTxn]
    /\ UNCHANGED <<cellSeq, predSeq>>

pair_create_commit(i, here, next) ==
    /\ pc[i] = here
    /\ pair_commit(i)
    /\ pc' = [pc EXCEPT ![i] = next]
    /\ UNCHANGED <<cnxn_, cursor_, xr, records, idx, pairfixed>>

pair_build_records(i, here, recs, next, after) ==
    /\ pc[i] = here
    /\ records' = [records EXCEPT ![i] = recs]
    /\ idx' = [idx EXCEPT ![i] = [k |-> 0, j |-> 0]]
    /\ pc' = [pc EXCEPT ![i] = IF Len(recs) = 0 THEN after ELSE next]
    /\ UNCHANGED <<dbvars, txn, cnxn_, cursor_, xr, pairfixed>>

\* The record of the next insert of invocation i.
pair_record(i) == batches(records[i], BatchSize)[idx[i].k + 1][idx[i].j + 1]
pair_last(i) == idx[i].j + 1 = Len(batches(records[i], BatchSize)[idx[i].k + 1])

\* One INSERT INTO cell ... ON CONFLICT DO NOTHING of invocation i.  An insert
\* that conflicts with a row the other invocation has inserted and not
\* committed waits for that transaction.
pair_insert_geometry(i) ==
    /\ pc[i] = "geom_batch"
    /\ \/ cell_conflict(pair_record(i), cell \cup txn[i].cell)
       \/ ~cell_conflict(pair_record(i), txn[Other(i)].cell)
    /\ LET s == insert_cells(cell, <<pair_record(i)>>, 1,
                             [rows |-> txn[i].cell, seq |-> cellSeq])
       IN  /\ txn' = [txn EXCEPT ![i].status = "open", ![i].cell = s.rows]
           /\ cellSeq' = s.seq
    /\ idx' = [idx EXCEPT ![i].j = @ + 1]
    /\ pc' = [pc EXCEPT ![i] = IF pair_last(i) THEN "geom_commit" ELSE "geom_batch"]
    /\ UNCHANGED <<tables, cell, prediction, latest, predSeq,
                   cnxn_, cursor_, xr, records, pairfixed>>

\* One INSERT INTO prediction ... ON CONFLICT DO NOTHING of invocation i.
pair_insert_forecast(i) ==
    /\ pc[i] = "pred_batch"
    /\ \/ prediction_conflict(pair_record(i), prediction \cup txn[i].prediction)
       \/ ~prediction_conflict(pair_record(i), txn[Other(i)].prediction)
    /\ LET s == insert_predictions(prediction, <<pair_record(i)>>, 1,
                                   [rows |-> txn[i].prediction, seq |-> predSeq])
       IN  /\ txn' = [txn EXCEPT ![i].status = "open", ![i].prediction = s.rows]
           /\ predSeq' = s.seq
    /\ idx' = [idx EXCEPT ![i].j = @ + 1]
    /\ pc' = [pc EXCEPT ![i] = IF pair_last(i) THEN "pred_commit" ELSE "pred_batch"]
    /\ UNCHANGED <<tables, cell, prediction, latest, cellSeq,
                   cnxn_, cursor_, xr, records, pairfixed>>

\* cnxn.commit() after a batch of invocation i.
pair_batch_commit(i, here, again, after) ==
    /\ pc[i] = here
    /\ pair_commit(i)
    /\ idx' = [idx EXCEPT ![i] = [k |-> @.k + 1, j |-> 0]]
    /\ pc' = [pc EXCEPT ![i] =
                IF idx[i].k + 1 = n_batches(Len(records[i]), BatchSize)
                THEN after ELSE again]
    /\ UNCHANGED <<cnxn_, cursor_, xr, records, pairfixed>>

\* DROP MATERIALIZED VIEW; CREATE MATERIALIZED VIEW of invocation i: rejected
\* when the view does not exist; it waits while the other invocation has
\* dropped the view and not committed.
pair_replace_view(i) ==
    /\ pc[i] = "latest_exec"
    /\ txn[Other(i)].view = None
    /\ IF "prediction_latest" \in tables
       THEN /\ txn' = [txn EXCEPT ![i].status = "open",
                         ![i].view = [rows |-> latest_rows(prediction \cup txn[i].prediction,
                                                           cell \cup txn[i].cell)]]
            /\ pc' = [pc EXCEPT ![i] = "latest_commit"]
            /\ UNCHANGED cnxn_
       ELSE /\ txn' = [txn EXCEPT ![i] = NoTxn]
            /\ pc' = [pc EXCEPT ![i] = "raised"]
            /\ cnxn_' = [cnxn_ EXCEPT ![i] = "closed"]
    /\ UNCHANGED <<dbvars, cursor_, xr, records, idx, pairfixed>>

\* The last commit; the invocation is over and its connection closes.
pair_latest_commit(i) ==
    /\ pc[i] = "latest_commit"
    /\ pair_commit(i)
    /\ cnxn_' = [cnxn_ EXCEPT ![i] = "closed"]
    /\ pc' = [pc EXCEPT ![i] = "exit"]
    /\ UNCHANGED <<cursor_, xr, records, idx, pairfixed>>

pair_update_geometries(i) ==
    \/ pair_create_table(i, "geom_create", "cell", "geom_create_wait", "geom_create_commit")
    \/ pair_create_rejected(i, "geom_create_wait")
    \/ pair_create_commit(i, "geom_create_commit", "geom_records")
    \/ pair_build_records(i, "geom_records", geometry_records(xr[i]),
                          "geom_batch", "pred_create")
    \/ pair_insert_geometry(i)
    \/ pair_batch_commit(i, "geom_commit", "geom_batch", "pred_create")

pair_update_predictions(i) ==
    \/ pair_create_table(i, "pred_create", "prediction", "pred_create_wait",
                         "pred_create_commit")
    \/ pair_create_rejected(i, "pred_create_wait")
    \/ pair_create_commit(i, "pred_create_commit", "pred_load")
    \/ pair_build_records(i, "pred_load", df_merged(xr[i], cell \cup txn[i].cell),
                          "pred_batch", "latest_exec")
    \/ pair_insert_forecast(i)
    \/ pair_batch_commit(i, "pred_commit", "pred_batch", "latest_exec")

pair_update_latest_prediction(i) ==
    \/ pair_replace_view(i)
    \/ pair_latest_commit(i)

NextPair ==
    \E i \in Procs :
        \/ pair_load(i)
        \/ pair_update_geometries(i)
        \/ pair_update_predictions(i)
        \/ pair_update_latest_prediction(i)

SpecPair == InitPair /\ [][NextPair]_vars

\* ================================================================ properties
InvocationOver == pc = "exit"
Completed(o) == o \in done
SameInputAgain(how) == prev # None /\ prev.how \in how /\ prev.blob = blob

\* C1: an invocation that runs again the input of the invocation before it,
\* which completed the whole pipeline, changes no row of cell or prediction
\* and leaves the rows of the latest view as they were.
C1_RerunChangesNothing ==
    (pc # "idle" /\ SameInputAgain({"completed"}))
        => /\ cell = snap.cell
           /\ prediction = snap.prediction
           /\ latest = snap.latest

\* C2: every row of prediction has the cell_id of a cell whose centroid is
\* the truncation to integer metres of the coordinates of the record the row
\* was written from.
C2_CellIdIsTruncatedCentroid ==
    \A p \in prediction :
        \E c \in cell : /\ c.cell_id = p.cell_id
                        /\ c.centroid_x = int(p.xc)
                        /\ c.centroid_y = int(p.yc)

\* C3: no row of prediction, committed or not, has a mean that is missing or
\* not positive.
C3_NoNonPositiveMean ==
    \A p \in visPrediction : p.mean # NaN /\ p.mean > 0

\* C3 witness: update_predictions has committed rows of an input that has
\* missing, zero and negative means.
C3_Witness ==
    /\ Completed("update_predictions")
    /\ blob.mean = Mixed
    /\ prediction # snap.prediction

\* The latest date of prediction, and who has a prediction on it.
IsLatestDate(d) ==
    /\ \E p \in prediction : p.date = d
    /\ \A p \in prediction : p.date <= d
HasLatest(c) ==
    \E p \in prediction : p.cell_id = c.cell_id /\ IsLatestDate(p.date)
HasLatestAt(c, l) ==
    \E p \in prediction :
        p.cell_id = c.cell_id /\ p.leadtime = l /\ IsLatestDate(p.date)
LatestDateOnly == \A v \in latest : IsLatestDate(v.date)
Refreshed == InvocationOver /\ Completed("update_latest_prediction")

\* C4 as claimed: after update_latest_prediction every row of the view has
\* the date max(date) of prediction, and the view has exactly one row for
\* each cell that has a prediction on that date (and none for another cell).
C4_OneRowPerCell ==
    Refreshed =>
        /\ LatestDateOnly
        /\ \A c \in cell :
             Cardinality({ v \in latest : v.cell_id = c.cell_id }) =
                IF HasLatest(c) THEN 1 ELSE 0

\* C4 as amended: ... and the view has exactly one row for each cell and
\* lead time that have a prediction on that date (and none for another).
C4_OneRowPerCellAndLeadTime ==
    Refreshed =>
        /\ LatestDateOnly
        /\ \A c \in cell, l \in Leads :
             Cardinality({ v \in latest : v.cell_id = c.cell_id /\ v.leadtime = l }) =
                IF HasLatestAt(c, l) THEN 1 ELSE 0

\* C4 witness: the view was refreshed over predictions of two dates, with a
\* cell that has predictions at two lead times on the latest date.
C4_Witness ==
    /\ Refreshed
    /\ Cardinality({ p.date : p \in prediction }) = 2
    /\ \E c \in cell : \A l \in Leads : HasLatestAt(c, l)

\* C6: when update_geometries returns, cell has exactly one row for every
\* centroid pair derived from the grid, and when the invocation before ran
\* update_geometries to its end on the same grid, cell has the rows it had
\* when this invocation started.
SameGridAgain ==
    /\ prev # None /\ prev.how \in {"completed", "geometries"}
    /\ prev.blob.xc = blob.xc /\ prev.blob.yc = blob.yc

C6_GeometriesIdempotent ==
    (pc = "pred_create" /\ Completed("update_geometries")) =>
        /\ \A r \in Range(geometry_records(xr)) :
             Cardinality({ c \in cell : /\ c.centroid_x = r.centroid_x
                                        /\ c.centroid_y = r.centroid_y }) = 1
        /\ SameGridAgain => cell = snap.cell

\* C6 witness: update_geometries returned a second time on the same grid.
C6_Witness ==
    /\ pc = "pred_create" /\ Completed("update_geometries")
    /\ SameGridAgain
    /\ cell # {}

\* C9: an invocation whose input is malformed sends no statement and no
\* commit to the database.
C9_NoWriteAfterDecodeError ==
    blob = Malformed => ~wrote

\* No two records have the same centroid pair.
PairwiseDistinct(recs) ==
    \A i, j \in DOMAIN recs :
        i # j => \/ recs[i].centroid_x # recs[j].centroid_x
                 \/ recs[i].centroid_y # recs[j].centroid_y

\* No two values of the axis truncate to the same number of metres.
DistinctMetres(axis) ==
    \A i, j \in DOMAIN axis : i # j => int(axis[i]) # int(axis[j])

\* C5 as claimed: the records derived from axes of length >= 2 number
\* len(x) * len(y) and have pairwise distinct centroid pairs.
C5_DistinctCentroids ==
    pc = "derived" =>
        /\ Len(records) = Len(xr.xc) * Len(xr.yc)
        /\ PairwiseDistinct(records)

\* C5 as amended: ... and have pairwise distinct centroid pairs when no two
\* values of an axis truncate to the same integer metre.
C5_DistinctCentroidsOfDistinctMetres ==
    pc = "derived" =>
        /\ Len(records) = Len(xr.xc) * Len(xr.yc)
        /\ (DistinctMetres(xr.xc) /\ DistinctMetres(xr.yc))
              => PairwiseDistinct(records)

\* C5 witness: records derived from axes with half metres and negative
\* values that truncate to distinct metres.
C5_Witness ==
    /\ pc = "derived"
    /\ DistinctMetres(xr.xc) /\ DistinctMetres(xr.yc)
    /\ \E i \in DOMAIN xr.xc : ~IsIntegral(xr.xc[i]) /\ xr.xc[i] < 0
    /\ Len(records) >= 4

\* ---- contents of the tables, surrogate ids aside
Min(a, b) == IF a < b THEN a ELSE b
CellKeys(rows) == { <<c.centroid_x, c.centroid_y>> : c \in rows }
Centroid(id, cells) ==
    IF \E c \in cells : c.cell_id = id
    THEN LET c == CHOOSE c \in cells : c.cell_id = id
         IN  <<c.centroid_x, c.centroid_y>>
    ELSE <<NULL, NULL>>
PredictionKeys(rows, cells) ==
    { <<p.date, p.leadtime, Centroid(p.cell_id, cells), p.mean, p.stddev, p.xc, p.yc>> :
        p \in rows }
ViewKeys(rows) ==
    { <<v.date, v.leadtime, v.centroid_x, v.centroid_y, v.mean, v.stddev>> : v \in rows }

\* Two states of the database with the same rows, surrogate ids aside.
SameContents(a, b) ==
    /\ CellKeys(a.cell) = CellKeys(b.cell)
    /\ Cardinality(a.cell) = Cardinality(b.cell)
    /\ PredictionKeys(a.prediction, a.cell) = PredictionKeys(b.prediction, b.cell)
    /\ Cardinality(a.prediction) = Cardinality(b.prediction)
    /\ ViewKeys(a.latest) = ViewKeys(b.latest)
    /\ Cardinality(a.latest) = Cardinality(b.latest)

MaxOf(S) == IF S = {} THEN 0 ELSE CHOOSE m \in S : \A x \in S : x <= m

\* The tables after the first n records of recs were inserted into the
\* committed rows start, nothing else happening.
CellsAfter(start, recs, n) ==
    start \cup insert_cells(start, recs, n,
                            [rows |-> {},
                             seq |-> MaxOf({ c.cell_id : c \in start })]).rows
PredictionsAfter(start, recs, n) ==
    start \cup insert_predictions(start, recs, n,
                                  [rows |-> {},
                                   seq |-> MaxOf({ p.prediction_id : p \in start })]).rows

\* The database after one uninterrupted run of the whole pipeline on ds,
\* started from the rows of from.
Uninterrupted(from, ds) ==
    LET cells == CellsAfter(from.cell, geometry_records(ds),
                            Len(geometry_records(ds)))
        merged == df_merged(ds, cells)
        preds == PredictionsAfter(from.prediction, merged, Len(merged))
    IN  [cell |-> cells, prediction |-> preds, latest |-> latest_rows(preds, cells)]

\* C7, first half: at every point between the batch commits of an operation
\* (where a crash may come) the committed tables hold the rows they held
\* when the invocation started and the rows of the batches committed so
\* far, and nothing of a later batch.
C7_CommittedBatchesOnly ==
    /\ pc \in {"geom_batch", "geom_commit"} =>
         SameContents([Rows EXCEPT !.latest = {}],
                      [cell |-> CellsAfter(snap.cell, records,
                                           Min(idx * BatchSize, Len(records))),
                       prediction |-> snap.prediction, latest |-> {}])
    /\ pc \in {"pred_batch", "pred_commit"} =>
         SameContents([Rows EXCEPT !.latest = {}],
                      [cell |-> cell,
                       prediction |-> PredictionsAfter(snap.prediction, records,
                                           Min(idx * BatchSize, Len(records))),
                       latest |-> {}])

\* C7, second half: when invocations crashed between batch commits and the
\* same input then runs to completion, the tables hold what one
\* uninterrupted run on that input, from the rows before the first attempt,
\* leaves.
C7_RerunAfterCrash ==
    (InvocationOver /\ Operations \subseteq done
       /\ SameInputAgain({"crash in batches"}))
        => SameContents(Rows, Uninterrupted(base, blob))

\* C7: both halves.
C7_CrashLeavesRerunnableState ==
    C7_CommittedBatchesOnly /\ C7_RerunAfterCrash

\* Whether a committed row was written from a record of the batch b.
CellOfBatch(c, b) ==
    \E i \in DOMAIN b : /\ c.centroid_x = b[i].centroid_x
                        /\ c.centroid_y = b[i].centroid_y
PredictionOfBatch(p, b) ==
    \E i \in DOMAIN b : /\ p.date = date(b[i].time) /\ p.leadtime = b[i].leadtime
                        /\ p.xc = b[i].xc /\ p.yc = b[i].yc

\* C8: once an insert of batch k of an operation has raised, for the rest of
\* the Processor's life: no row of batch k is committed, the rows committed
\* before stay, and the operation inserts no further batch.
C8_FailedBatchNeverDurable ==
    failed # None =>
        /\ failed.cell \subseteq cell
        /\ failed.prediction \subseteq prediction
        /\ failed.op = "update_geometries" =>
             /\ \A c \in cell \ failed.cell : ~CellOfBatch(c, failed.batch)
             /\ pc \notin {"geom_batch", "geom_commit"}
        /\ failed.op = "update_predictions" =>
             /\ \A p \in prediction \ failed.prediction :
                    ~PredictionOfBatch(p, failed.batch)
             /\ pc \notin {"pred_batch", "pred_commit"}

C11_CommittedRowsStay ==
    [][/\ cell \subseteq cell'
       /\ prediction \subseteq prediction'
       /\ \A c \in cell' \ cell : ~cell_conflict(c, cell)
       /\ \A p \in prediction' \ prediction :
            \A q \in prediction :
                ~(/\ p.cell_id # NULL /\ q.cell_id = p.cell_id
                  /\ q.date = p.date /\ q.leadtime = p.leadtime)]_vars

\* C11 witness: update_predictions returned on an input whose mean at a
\* cell differs from the mean of the committed row of that cell, date and
\* lead time: the row kept its first value.
C11_Witness ==
    /\ Completed("update_predictions")
    /\ \E p \in prediction :
         /\ p.cell_id # NULL
         /\ p.date = date(blob.time)
         /\ p.xc = blob.xc[1] /\ p.yc = blob.yc[1]
         /\ p.mean # blob.mean[1][1]
         /\ keep([mean |-> blob.mean[1][1], stddev |-> 1])

\* C12: no row of prediction, committed or not, has a NULL cell_id.
C12_NoNullCellId ==
    \A p \in visPrediction : p.cell_id # NULL

\* C13 as claimed, for two concurrent invocations on the same input: cell
\* never holds two rows with the same (centroid_x, centroid_y), prediction
\* never holds two rows with the same (date, leadtime, cell_id), and when
\* both invocations have finished, cell and prediction hold the rows that
\* one invocation on that input leaves.
BothFinished == \A i \in Procs : pc[i] = "exit"
AfterOneInvocation ==
    [Uninterrupted(NoRows, blob) EXCEPT !.latest = {}]

C13_ConcurrentRunsAsOne ==
    /\ \A c, d \in cell :
         (c.centroid_x = d.centroid_x /\ c.centroid_y = d.centroid_y) => c = d
    /\ \A p, q \in prediction :
         (p.date = q.date /\ p.leadtime = q.leadtime /\ p.cell_id = q.cell_id)
            => p = q
    /\ BothFinished =>
         SameContents([Rows EXCEPT !.latest = {}], AfterOneInvocation)

\* C14: the committed database, which is what another session sees, never
\* loses the view: no step takes it away, its rows change at the commit of
\* update_latest_prediction and nowhere else, and when the execute of the
\* DROP and CREATE raises the view is there with the rows it had.
C14_ViewReplacedAtomically ==
    [][/\ "prediction_latest" \in tables => "prediction_latest" \in tables'
       /\ latest' # latest => (pc = "latest_commit" /\ pc' = "exit")
       /\ (pc = "latest_exec" /\ pc' = "raised") => latest' = latest]_vars

\* C14 witness: the commit of update_latest_prediction has replaced a view
\* that had rows by one with other rows.
C14_Witness ==
    /\ Refreshed
    /\ snap.latest # {}
    /\ latest # snap.latest
    /\ "prediction_latest" \in tables

HalfWidth(axis) == mean_step_size(axis).num \div (4 * mean_step_size(axis).den)

C15_HalfWidthOfMeanStep ==
    pc = "derived" =>
        \A k \in DOMAIN records :
            records[k].geom =
                Polygon(records[k].centroid_x - HalfWidth(xr.xc),
                        records[k].centroid_x + HalfWidth(xr.xc),
                        records[k].centroid_y - HalfWidth(xr.yc),
                        records[k].centroid_y + HalfWidth(xr.yc))

\* The batches of a sequence one after the other.
RECURSIVE Flatten(_, _)
Flatten(bs, n) == IF n = 0 THEN <<>> ELSE Flatten(bs, n - 1) \o bs[n]

\* The records are cut into ceil(n / BatchSize) batches, in order, every
\* record in exactly one of them, no batch empty or longer than BatchSize.
InBatches(recs) ==
    LET bs == batches(recs, BatchSize)
    IN  /\ Len(bs) * BatchSize >= Len(recs)
        /\ (Len(bs) - 1) * BatchSize < Len(recs) \/ (Len(recs) = 0 /\ Len(bs) = 0)
        /\ Flatten(bs, Len(bs)) = recs
        /\ \A k \in DOMAIN bs : Len(bs[k]) \in 1..BatchSize

====
